---- MODULE Spec2Model ----
(***************************************************************************)
(* Tubular linear motor: parametric geometry synthesis (magnets, coils,    *)
(* open boundary) and the kinematic/current driver of the FEMM session.    *)
(*                                                                         *)
(* Lengths are millimetres.  The code halves diameters, pitches and        *)
(* lengths, and halves again for label positions, so every coordinate of   *)
(* the document is kept multiplied by four: x0 = 4 * (x in mm).  Squared   *)
(* radii are kept multiplied by sixteen.                                   *)
(*                                                                         *)
(* An Optional[...] dataclass field is a sequence: <<>> is None, <<v>> is  *)
(* the value v.  An arithmetic operation or an ordering comparison on None *)
(* raises TypeError in Python; the model moves to pc = "error".            *)
(***************************************************************************)
EXTENDS Integers, Sequences, FiniteSets, TLC

VARIABLES
    variant,     \* which geometry code runs: "CreateModel" or "model_builders"
    magnet,      \* the Magnet dataclass instance
    coil,        \* the Coil dataclass instance
    pc,          \* position of the program
    i,           \* loop index of the running create_magnets / create_coils
    regions,     \* regions of the FEMM document, in emission order
    airLabel,    \* <<>> or <<the "Air" block label of create_auto_boundary>>
    circuits,    \* circuit properties of the document: set of <<name, current>>
    err,         \* "" or the name of the exception that ended the program
    fm,          \* <<>> or <<FEMMModel parameters>>
    offset_pos,  \* FEMMModel.offset_pos
    currents,    \* FEMMModel.currents: set of <<name, current>>
    nCalls,      \* number of translate_and_set_currents calls so far
    sumDelta,    \* sum of the deltas passed to translate_and_set_currents
    prog,        \* the program that runs: [module, mode]
    cfg,         \* the parsed configuration file (yaml.safe_load)
    nullFields,  \* the <<section, field>> that are None in magnet and coil
    log,         \* the solver commands issued so far, in order
    materials,   \* import_materials_property: [added, failed]
    sweep,       \* the arguments of run_simulation: [start, end, step]
    remaining,   \* iterations left in the for loop of run_simulation
    results,     \* the results list of run_simulation
    blockSel,    \* the block selection of the post-processor
    solver       \* the field solution: [mutual]

vars == <<variant, magnet, coil, pc, i, regions, airLabel, circuits, err,
          fm, offset_pos, currents, nCalls, sumDelta, prog, cfg, nullFields,
          log, materials, sweep, remaining, results, blockSel, solver>>

geomVars == <<regions, airLabel>>
paramVars == <<variant, magnet, coil>>
sessionVars == <<fm, offset_pos, currents, nCalls, sumDelta>>
configVars == <<prog, cfg, nullFields, materials>>
sweepVars == <<sweep, remaining, results, blockSel, solver>>
runVars == <<configVars, sweepVars>>

(***************************************************************************)
(* Bounds of the model.                                                    *)
(***************************************************************************)
MaxMagnets == 3
MaxCoils == 6
MaxCalls == 2

None == <<>>
Some(v) == <<v>>
IsNone(x) == x = <<>>
Val(x) == x[1]

Max(a, b) == IF a >= b THEN a ELSE b
Min(a, b) == IF a <= b THEN a ELSE b
Abs(a) == IF a >= 0 THEN a ELSE -a

(***************************************************************************)
(* Parameter model.                                                        *)
(***************************************************************************)
\* Optional fields of Magnet: all left at the dataclass default, or all set.
MagnetOptionals ==
    { [spacer_material |-> "None", tube_od |-> None,     tube_material |-> "None"],
      [spacer_material |-> "Sp",   tube_od |-> Some(0),  tube_material |-> "None"],
      [spacer_material |-> "Sp",   tube_od |-> Some(16), tube_material |-> "Tube"] }

Magnets ==
    { [od |-> 10, length |-> len, pitch |-> 5, material |-> "M",
       spacer_material |-> o.spacer_material, number |-> n,
       tube_od |-> o.tube_od, tube_material |-> o.tube_material] :
         len \in {4, 5}, n \in 1..MaxMagnets, o \in MagnetOptionals }
    \cup
    { [od |-> 10, length |-> 6, pitch |-> 5, material |-> "M",
       spacer_material |-> "Sp", number |-> n,
       tube_od |-> Some(16), tube_material |-> "Tube"] : n \in 1..MaxMagnets }

\* Optional spool fields of Coil: defaults, no spool, an enclosing spool.
CoilSpools ==
    { [spacer_material |-> "None", spool_id |-> None, spool_od |-> None,
       spool_flange_width |-> None, spool_material |-> "None"],
      [spacer_material |-> "Sp", spool_id |-> Some(0), spool_od |-> Some(0),
       spool_flange_width |-> Some(0), spool_material |-> "None"],
      [spacer_material |-> "Sp", spool_id |-> Some(4), spool_od |-> Some(22),
       spool_flange_width |-> Some(1), spool_material |-> "Spool"] }

Coils ==
    { [id |-> 6, od |-> 12, length |-> 3, pitch |-> p, material |-> "C",
       spacer_material |-> s.spacer_material, nb_turn |-> t, number |-> n,
       current_peak |-> None, vertical_offset |-> v,
       spool_id |-> s.spool_id, spool_od |-> s.spool_od,
       spool_flange_width |-> s.spool_flange_width,
       spool_material |-> s.spool_material,
       tube_id |-> None, tube_od |-> None, tube_material |-> "None"] :
         p \in {5, 7}, t \in {50, 100}, n \in 1..MaxCoils,
         v \in {None, Some(0), Some(3)}, s \in CoilSpools }

(***************************************************************************)
(* A region of the document: the rectangle drawn by its nodes and          *)
(* segments (x0..x1, y0..y1), the group given to its segments, and its     *)
(* block label with the arguments of mi_setblockprop.                      *)
(***************************************************************************)
Region(kind, idx, x0, x1, y0, y1, lx, ly, material, circuit, angle, group, turns, seggroup) ==
    [kind |-> kind, idx |-> idx, x0 |-> x0, x1 |-> x1, y0 |-> y0, y1 |-> y1,
     lx |-> lx, ly |-> ly, material |-> material, circuit |-> circuit,
     angle |-> angle, group |-> group, turns |-> turns, seggroup |-> seggroup]

Init ==
    /\ variant \in {"CreateModel", "model_builders"}
    /\ magnet \in Magnets
    /\ coil \in Coils
    /\ pc = "circuits"
    /\ i = 0
    /\ regions = <<>>
    /\ airLabel = <<>>
    /\ circuits = {}
    /\ err = ""
    /\ fm = <<>>
    /\ offset_pos = 0
    /\ currents = {}
    /\ nCalls = 0
    /\ sumDelta = 0
    /\ prog = [module |-> "geometry", mode |-> "generate"]
    /\ cfg = <<>>
    /\ nullFields = {}
    /\ log = <<>>
    /\ materials = [added |-> <<>>, failed |-> <<>>]
    /\ sweep = <<>>
    /\ remaining = 0
    /\ results = <<>>
    /\ blockSel = {}
    /\ solver = [mutual |-> 0]

(***************************************************************************)
(* The log of solver commands.  A "region" entry stands for the            *)
(* mi_addnode, mi_addsegment, mi_addblocklabel and mi_setblockprop calls   *)
(* that draw one region.                                                   *)
(***************************************************************************)
Cmd(cmd, name, val) == [cmd |-> cmd, name |-> name, val |-> val]

\* the entries of the regions that new has after those of old
RegionCmds(old, new) ==
    [k \in 1..(Len(new) - Len(old)) |->
       Cmd("region", new[Len(old) + k].kind, new[Len(old) + k].idx)]


(***************************************************************************)
(* Configuration file and model assembly (CreateModel.build).              *)
(*                                                                         *)
(* A configuration value is <<"num", n>>, <<"str", s>> or <<"null">>.  A   *)
(* section is [name, is_dict, entries] with entries a set of <<key,        *)
(* value>>.  The root is [is_dict, sections].                              *)
(***************************************************************************)
Num(n) == <<"num", n>>
Str(t) == <<"str", t>>
Null == <<"null">>

\* str.lower() on the keys that occur in the configurations
KeyLower(key) ==
    CASE key = "OD" -> "od"
      [] key = "ID" -> "id"
      [] key = "Length" -> "length"
      [] key = "Pitch" -> "pitch"
      [] key = "Number" -> "number"
      [] key = "Nb_turn" -> "nb_turn"
      [] key = "Material" -> "material"
      [] key = "Spacer_material" -> "spacer_material"
      [] key = "MATERIAL_count" -> "material_count"
      [] key = "Base_Material" -> "base_material"
      [] key = "Mat" -> "mat"

\* "material" in key.lower(), on the lowered keys above
ContainsMaterial(lowered) ==
    lowered \in {"material", "spacer_material", "material_count", "base_material"}

required_magnet == <<"number", "pitch", "length", "od", "material">>
required_coil == <<"number", "pitch", "length", "od", "id", "nb_turn", "material">>

Range(f) == { f[k] : k \in DOMAIN f }

MagnetSection(spacer) ==
    { <<"OD", Num(10)>>, <<"Length", Num(4)>>, <<"Pitch", Num(5)>>,
      <<"Number", Num(2)>>, <<"Material", Str("M")>> }
      \cup (IF spacer THEN { <<"Spacer_material", Str("C")>> } ELSE {})

CoilSection ==
    { <<"ID", Num(6)>>, <<"OD", Num(12)>>, <<"Length", Num(3)>>,
      <<"Pitch", Num(5)>>, <<"Number", Num(3)>>, <<"Nb_turn", Num(100)>>,
      <<"Material", Str("C")>> }

Section(name, is_dict, entries) ==
    [name |-> name, is_dict |-> is_dict, entries |-> entries]

\* a section that is a mapping but neither Magnet nor Coil, and a scalar one
InfoSection ==
    Section("Info", TRUE, { <<"Base_Material", Str("Sp")>>,
                            <<"MATERIAL_count", Num(3)>>,
                            <<"Mat", Str("X")>> })
VersionSection == Section("Version", FALSE, {})

ValidConfigs ==
    { [is_dict |-> TRUE,
       sections |-> { Section("Magnet", TRUE, MagnetSection(FALSE)),
                      Section("Coil", TRUE, CoilSection) }],
      [is_dict |-> TRUE,
       sections |-> { Section("Magnet", TRUE, MagnetSection(TRUE)),
                      Section("Coil", TRUE, CoilSection),
                      InfoSection, VersionSection }] }

\* The entry of a key removed (missing) or its value set to null.
WithoutKey(entries, key) == { e \in entries : e[1] # key }
WithNull(entries, key) == WithoutKey(entries, key) \cup { <<key, Null>> }

InvalidConfigs ==
    { [is_dict |-> FALSE, sections |-> {}] }
    \cup { [is_dict |-> TRUE, sections |-> ss] :
             ss \in { {}, { Section("Magnet", TRUE, MagnetSection(FALSE)) },
                      { Section("Coil", TRUE, CoilSection) } } }
    \cup { [is_dict |-> TRUE,
            sections |-> { Section("Magnet", TRUE,
                                   WithoutKey(MagnetSection(FALSE), e[1])),
                           Section("Coil", TRUE, CoilSection) }] :
             e \in MagnetSection(FALSE) }
    \cup { [is_dict |-> TRUE,
            sections |-> { Section("Magnet", TRUE, MagnetSection(FALSE)),
                           Section("Coil", TRUE, WithNull(CoilSection, e[1])) }] :
             e \in CoilSection }

\* name in self.params
HasSection(c, name) == \E sec \in c.sections : sec.name = name

\* self.params.get(name, {})
SectionData(c, name) ==
    IF HasSection(c, name)
      THEN (CHOOSE sec \in c.sections : sec.name = name).entries
      ELSE {}

\* The value given to a dataclass field: create_model.py lowers the keys
\* (Magnet(**{k.lower(): v})), sim_base.py looks up the capitalised key
\* (data.get("OD")); an absent key leaves None.
FieldValue(module, entries, field) ==
    LET hits == IF module = "sim_base"
                  THEN { e \in entries : e[1] \in {"OD", "ID", "Length", "Pitch",
                             "Number", "Nb_turn", "Material", "Spacer_material"}
                                         /\ KeyLower(e[1]) = field }
                  ELSE { e \in entries : KeyLower(e[1]) = field }
    IN IF hits = {} THEN Null ELSE (CHOOSE e \in hits : TRUE)[2]

NumOr(v, default) == IF v[1] = "num" THEN v[2] ELSE default
OptNum(v) == IF v[1] = "num" THEN Some(v[2]) ELSE None
StrOr(v, default) == IF v[1] = "str" THEN v[2] ELSE default

\* The Magnet built by _load_objects.  A required field that is None keeps 0
\* (or "None") here and is listed in nullFields.
LoadMagnet(module, entries) ==
    [od |-> NumOr(FieldValue(module, entries, "od"), 0),
     length |-> NumOr(FieldValue(module, entries, "length"), 0),
     pitch |-> NumOr(FieldValue(module, entries, "pitch"), 0),
     material |-> StrOr(FieldValue(module, entries, "material"), "None"),
     spacer_material |->
         StrOr(FieldValue(module, entries, "spacer_material"), "None"),
     number |-> NumOr(FieldValue(module, entries, "number"), 0),
     tube_od |-> OptNum(FieldValue(module, entries, "tube_od")),
     tube_material |->
         StrOr(FieldValue(module, entries, "tube_material"), "None")]

LoadCoil(module, entries) ==
    [id |-> NumOr(FieldValue(module, entries, "id"), 0),
     od |-> NumOr(FieldValue(module, entries, "od"), 0),
     length |-> NumOr(FieldValue(module, entries, "length"), 0),
     pitch |-> NumOr(FieldValue(module, entries, "pitch"), 0),
     material |-> StrOr(FieldValue(module, entries, "material"), "None"),
     spacer_material |->
         StrOr(FieldValue(module, entries, "spacer_material"), "None"),
     nb_turn |-> NumOr(FieldValue(module, entries, "nb_turn"), 0),
     number |-> NumOr(FieldValue(module, entries, "number"), 0),
     current_peak |-> OptNum(FieldValue(module, entries, "current_peak")),
     vertical_offset |-> OptNum(FieldValue(module, entries, "vertical_offset")),
     spool_id |-> OptNum(FieldValue(module, entries, "spool_id")),
     spool_od |-> OptNum(FieldValue(module, entries, "spool_od")),
     spool_flange_width |->
         OptNum(FieldValue(module, entries, "spool_flange_width")),
     spool_material |->
         StrOr(FieldValue(module, entries, "spool_material"), "None"),
     tube_id |-> OptNum(FieldValue(module, entries, "tube_id")),
     tube_od |-> OptNum(FieldValue(module, entries, "tube_od")),
     tube_material |->
         StrOr(FieldValue(module, entries, "tube_material"), "None")]

\* the required fields of a section that are None after _load_objects
NullFieldsOf(module, section, entries, required) ==
    { <<section, f>> : f \in { g \in Range(required) :
                                 FieldValue(module, entries, g) = Null } }

\* load_model_parameters, entered from __main__ in "generate" mode.  The
\* ValueError raised for a root that is not a mapping is caught by the
\* "except Exception" of the same try and re-raised as RuntimeError.
load_model_parameters ==
    /\ pc = "main"
    /\ prog.mode = "generate"
    /\ IF ~cfg.is_dict
         THEN /\ pc' = "error"
              /\ err' = "RuntimeError"
              /\ UNCHANGED <<magnet, coil, nullFields>>
         ELSE /\ magnet' = LoadMagnet(prog.module, SectionData(cfg, "Magnet"))
              /\ coil' = LoadCoil(prog.module, SectionData(cfg, "Coil"))
              /\ nullFields' =
                   NullFieldsOf(prog.module, "Magnet",
                                SectionData(cfg, "Magnet"), required_magnet)
                   \cup NullFieldsOf(prog.module, "Coil",
                                     SectionData(cfg, "Coil"), required_coil)
              /\ pc' = "validate"
              /\ err' = err
    /\ UNCHANGED <<variant, i, geomVars, circuits, sessionVars, prog, cfg, log,
                   materials, sweepVars>>

\* validate_params of create_model.py: "" or the exception it raises
CM_ValidateError(c, nulls) ==
    IF ~HasSection(c, "Coil") THEN "ValueError"
    ELSE IF ~HasSection(c, "Magnet") THEN "ValueError"
    ELSE IF nulls # {} THEN "ValueError"
    ELSE ""

\* validate_params of sim_base.py (marked TODO): only the Coil section
SB_ValidateError(c, nulls) ==
    IF ~HasSection(c, "Coil") THEN "ValueError" ELSE ""

validate_params ==
    /\ pc = "validate"
    /\ LET e == IF prog.module = "sim_base"
                  THEN SB_ValidateError(cfg, nullFields)
                  ELSE CM_ValidateError(cfg, nullFields)
       IN /\ err' = e
          /\ pc' = IF e = "" THEN "open" ELSE "error"
    /\ UNCHANGED <<paramVars, i, geomVars, circuits, sessionVars, configVars,
                   log, sweepVars>>

\* build: openfemm(1), newdocument(0), mi_probdef(0, "millimeters", "axi")
build_open_document ==
    /\ pc = "open"
    /\ log' = log \o << Cmd("openfemm", "", 1), Cmd("newdocument", "", 0),
                        Cmd("mi_probdef", "axi", 0) >>
    /\ pc' = "materials"
    /\ UNCHANGED <<paramVars, i, geomVars, circuits, err, sessionVars, runVars>>

\* sorted(): the material names of the configurations in code point order
MaterialOrder == <<"Air", "C", "M", "Sp", "X">>

\* the material scan skipped the sections other than Magnet and Coil
MaterialNames_knownSections(c) ==
    {"Air"} \cup
    { e[2][2] : e \in { x \in UNION { sec.entries : sec \in
                           { t \in c.sections : t.is_dict
                                /\ t.name \in {"Magnet", "Coil"} } } :
                        ContainsMaterial(KeyLower(x[1])) /\ x[2][1] = "str" } }

\* material_names of import_materials_property
MaterialNames(c) ==
    {"Air"} \cup
    { e[2][2] : e \in { x \in UNION { sec.entries : sec \in
                           { t \in c.sections : t.is_dict } } :
                        ContainsMaterial(KeyLower(x[1])) /\ x[2][1] = "str" } }

SortedNames(names) == SelectSeq(MaterialOrder, LAMBDA n : n \in names)

\* import_materials_property: mi_getmaterial for every name in sorted order;
\* the solver rejects any subset of them
import_materials_property ==
    /\ pc = "materials"
    /\ LET sorted == SortedNames(MaterialNames(cfg))
       IN /\ \E rejected \in SUBSET MaterialNames(cfg) :
               materials' =
                 [added |-> SelectSeq(sorted, LAMBDA n : n \notin rejected),
                  failed |-> SelectSeq(sorted, LAMBDA n : n \in rejected)]
          /\ log' = log \o [k \in 1..Len(sorted) |->
                              Cmd("mi_getmaterial", sorted[k], 0)]
    /\ pc' = "circuits"
    /\ UNCHANGED <<paramVars, i, geomVars, circuits, err, sessionVars, prog,
                   cfg, nullFields, sweepVars>>

(***************************************************************************)
(* CreateModel.create_circuits                                             *)
(***************************************************************************)
\* the circuits added in the reverse order
CircuitCmds_reversed ==
    << Cmd("mi_addcircprop", "CoilC", 0),
       Cmd("mi_addcircprop", "CoilB", 0),
       Cmd("mi_addcircprop", "CoilA", 0) >>

\* mi_addcircprop(circuit_name, 0, 1) for the labels A, B, C
CircuitCmds ==
    << Cmd("mi_addcircprop", "CoilA", 0),
       Cmd("mi_addcircprop", "CoilB", 0),
       Cmd("mi_addcircprop", "CoilC", 0) >>

create_circuits ==
    /\ pc = "circuits"
    /\ circuits' = { <<"CoilA", 0>>, <<"CoilB", 0>>, <<"CoilC", 0>> }
    /\ log' = log \o CircuitCmds
    /\ pc' = "magnets"
    /\ i' = 0
    /\ UNCHANGED <<paramVars, geomVars, err, sessionVars, runVars>>

(***************************************************************************)
(* Magnets.                                                                *)
(***************************************************************************)
\* y_center of element k of a stack of n elements with the given pitch (x4)
StackCenter(n, pitch, k) == -(2 * (n - 1) * pitch) + 4 * k * pitch

\* the alternation started on the wrong pole
MagnetizationAngle_startPlus(k) == IF k % 2 = 0 THEN 90 ELSE -90

MagnetizationAngle(k) == IF k % 2 = 0 THEN -90 ELSE 90

\* create_magnet_geometry + add_magnet_block
MagnetRegion(m, k) ==
    LET y_center == StackCenter(m.number, m.pitch, k)
        half_length == 2 * m.length
        r == 2 * m.od
    IN Region("magnet", k, 0, r, y_center - half_length, y_center + half_length,
              m.od, y_center, m.material, "", MagnetizationAngle(k), 0, 0, 0)

\* the spacer centered on the next magnet
MagnetSpacerRegion_nextCenter(m, k) ==
    LET y_center == StackCenter(m.number, m.pitch, k)
        r == 2 * m.od
        spacer_center_y == y_center + 4 * m.pitch
        half_spacer == 2 * (m.pitch - m.length)
    IN Region("magnet_spacer", k, 0, r, spacer_center_y - half_spacer,
              spacer_center_y + half_spacer, m.od, spacer_center_y,
              m.spacer_material, "", 0, 0, 0, 0)

\* create_spacer, with the arguments create_magnets passes
MagnetSpacerRegion(m, k) ==
    LET y_center == StackCenter(m.number, m.pitch, k)
        r == 2 * m.od
        spacer_center_y == y_center + 2 * m.pitch
        half_spacer == 2 * (m.pitch - m.length)
    IN Region("magnet_spacer", k, 0, r, spacer_center_y - half_spacer,
              spacer_center_y + half_spacer, m.od, spacer_center_y,
              m.spacer_material, "", 0, 0, 0, 0)

\* the tube as high as the magnets from the first to the last
TubeRegion_stackHeight(m) ==
    LET tube_half_height == 2 * (m.number - 1) * m.pitch + 2 * m.length
        r == 2 * m.od
        tube_r == 2 * Val(m.tube_od)
    IN Region("tube", 0, r, tube_r, -tube_half_height, tube_half_height,
              tube_r - (tube_r - r) \div 2, 0, m.tube_material, "", 0, 0, 0, 0)

\* create_tube
TubeRegion(m) ==
    LET tube_half_height == 2 * m.number * m.pitch
        r == 2 * m.od
        tube_r == 2 * Val(m.tube_od)
    IN Region("tube", 0, r, tube_r, -tube_half_height, tube_half_height,
              tube_r - (tube_r - r) \div 2, 0, m.tube_material, "", 0, 0, 0, 0)

\* One iteration of the loop of CreateModel.create_magnets: no spacer, no tube.
CM_create_magnets ==
    /\ pc = "magnets"
    /\ variant = "CreateModel"
    /\ i < magnet.number
    /\ regions' = Append(regions, MagnetRegion(magnet, i))
    /\ IF i + 1 < magnet.number
         THEN /\ i' = i + 1
              /\ pc' = pc
         ELSE /\ i' = 0
              /\ pc' = "coils"
    /\ log' = log \o RegionCmds(regions, regions')
    /\ UNCHANGED <<paramVars, airLabel, circuits, err, sessionVars, runVars>>

\* One iteration of the loop of model_builders.create_magnets.
MB_create_magnets ==
    /\ pc = "magnets"
    /\ variant = "model_builders"
    /\ i < magnet.number
    /\ LET withMagnet == Append(regions, MagnetRegion(magnet, i))
       IN regions' = IF magnet.length < magnet.pitch /\ i < magnet.number - 1
                       THEN Append(withMagnet, MagnetSpacerRegion(magnet, i))
                       ELSE withMagnet
    /\ IF i + 1 < magnet.number
         THEN /\ i' = i + 1
              /\ pc' = pc
         ELSE /\ i' = 0
              /\ pc' = "tube"
    /\ log' = log \o RegionCmds(regions, regions')
    /\ UNCHANGED <<paramVars, airLabel, circuits, err, sessionVars, runVars>>

\* The end of model_builders.create_magnets: "if magnet.tube_od > magnet.od".
MB_create_magnets_tube ==
    /\ pc = "tube"
    /\ IF IsNone(magnet.tube_od)
         THEN /\ pc' = "error"
              /\ err' = "TypeError"
              /\ UNCHANGED regions
         ELSE /\ pc' = "coils"
              /\ err' = err
              /\ regions' = IF Val(magnet.tube_od) > magnet.od
                              THEN Append(regions, TubeRegion(magnet))
                              ELSE regions
    /\ log' = log \o RegionCmds(regions, regions')
    /\ UNCHANGED <<paramVars, i, airLabel, circuits, sessionVars, runVars>>

(***************************************************************************)
(* Coils.                                                                  *)
(***************************************************************************)
coil_labels == << <<"A", 1>>, <<"B", 2>>, <<"C", 3>> >>

\* the labels cycled in forward index order
CoilLabelIndex_forward(n, k) == (k % 3) + 1

\* coil_labels[(coil.number - 1 - i) % 3], as a 1-based index
CoilLabelIndex(n, k) == ((n - 1 - k) % 3) + 1

\* the polarity never flipped between groups of three coils
NbTurns_noFlip(nb_turn, coil_label, k) ==
    IF coil_label = "B" THEN nb_turn ELSE -nb_turn

\* the sign of the turns flipped every six coils
NbTurns_groupOfSix(nb_turn, coil_label, k) ==
    LET group_index == k \div 6
    IN IF group_index % 2 = 0
         THEN (IF coil_label = "B" THEN nb_turn ELSE -nb_turn)
         ELSE (IF coil_label = "B" THEN -nb_turn ELSE nb_turn)

\* group_index = i // 3 and the sign of the turns
NbTurns(nb_turn, coil_label, k) ==
    LET group_index == k \div 3
    IN IF group_index % 2 = 0
         THEN (IF coil_label = "B" THEN nb_turn ELSE -nb_turn)
         ELSE (IF coil_label = "B" THEN -nb_turn ELSE nb_turn)

\* create_coil_geometry + add_coil_block; y_start is the bottom coil's centre
CoilRegion(c, y_start, k) ==
    LET lbl == coil_labels[CoilLabelIndex(c.number, k)]
        coil_label == lbl[1]
        group == lbl[2]
        y_center == y_start + 4 * k * c.pitch
        half_length == 2 * c.length
        r == 2 * c.od
        x_start == 2 * c.id
        x_center == x_start + (r - x_start) \div 2
    IN Region("coil", k, x_start, r, y_center - half_length,
              y_center + half_length, x_center, y_center, c.material,
              "Coil" \o coil_label, 0, group,
              NbTurns(c.nb_turn, coil_label, k), group)

\* create_spool: outer rectangle of the spool, flange reliefs at both ends
SpoolRegion(c, y_center, k) ==
    LET half_length == 2 * c.length
        spool_flange_length == 4 * Val(c.spool_flange_width)
        half_spool_length == half_length + spool_flange_length
        spool_start_x == 2 * Val(c.spool_id)
        spool_end_x == 2 * Val(c.spool_od)
    IN Region("spool", k, spool_start_x, spool_end_x,
              y_center - half_spool_length, y_center + half_spool_length,
              spool_start_x + (spool_end_x - spool_start_x) \div 2,
              y_center + half_spool_length - spool_flange_length \div 2,
              c.spool_material, "", 0, 4, 0, 4)

\* create_coil_spacer
CoilSpacerRegion(c, y_center, k) ==
    LET x_start == 2 * c.id
        r == 2 * c.od
        spacer_length == 4 * (c.pitch - (c.length + 2 * Val(c.spool_flange_width)))
        spacer_center_y == y_center + 2 * c.pitch
        half_spacer == spacer_length \div 2
        spacer_start_x == IF Val(c.spool_id) # 0
                            THEN Min(x_start, 2 * Val(c.spool_id))
                            ELSE x_start
        spacer_end_x == Max(r, 2 * Val(c.spool_od))
    IN Region("coil_spacer", k, spacer_start_x, spacer_end_x,
              spacer_center_y - half_spacer, spacer_center_y + half_spacer,
              spacer_start_x + (spacer_end_x - spacer_start_x) \div 2,
              spacer_center_y, c.spacer_material, "", 0, 4, 0, 4)

\* One iteration of the loop of CreateModel.create_coils: no vertical offset,
\* no spool, no spacer.
CM_create_coils ==
    /\ pc = "coils"
    /\ variant = "CreateModel"
    /\ i < coil.number
    /\ LET y_start == -(2 * (coil.number - 1) * coil.pitch)
       IN regions' = Append(regions, CoilRegion(coil, y_start, i))
    /\ IF i + 1 < coil.number
         THEN /\ i' = i + 1
              /\ pc' = pc
         ELSE /\ i' = 0
              /\ pc' = "boundary"
    /\ log' = log \o RegionCmds(regions, regions')
    /\ UNCHANGED <<paramVars, airLabel, circuits, err, sessionVars, runVars>>

\* the spool drawn whenever it has a flange
SpoolTest_flangeOnly(c) ==
    IF IsNone(c.spool_flange_width) THEN "raise"
    ELSE IF Val(c.spool_flange_width) > 0 THEN "yes" ELSE "no"

\* The spool test of model_builders.create_coils, evaluated left to right:
\* "raise" when a comparison meets None, else whether the spool is drawn.
SpoolTest(c) ==
    IF IsNone(c.spool_flange_width) THEN "raise"
    ELSE IF ~(Val(c.spool_flange_width) > 0) THEN "no"
    ELSE IF IsNone(c.spool_id) THEN "raise"
    ELSE IF ~(Val(c.spool_id) <= c.id) THEN "no"
    ELSE IF IsNone(c.spool_od) THEN "raise"
    ELSE IF Val(c.spool_od) >= c.od THEN "yes" ELSE "no"

\* The body of the loop of model_builders.create_coils for index k, from the
\* document regs: the regions after it, and whether it raised TypeError.
MB_CoilIteration(c, k, regs) ==
    LET y_start == -(2 * (c.number - 1) * c.pitch) + 4 * Val(c.vertical_offset)
        y_center == y_start + 4 * k * c.pitch
        withCoil == Append(regs, CoilRegion(c, y_start, k))
        spool == SpoolTest(c)
        withSpool == IF spool = "yes"
                       THEN Append(withCoil, SpoolRegion(c, y_center, k))
                       ELSE withCoil
    IN IF spool = "raise"
         THEN [regions |-> withCoil, raised |-> TRUE]
       ELSE IF (c.length + 2 * Val(c.spool_flange_width)) < c.pitch
                 /\ k < c.number - 1
         THEN IF IsNone(c.spool_id) \/ IsNone(c.spool_od)
                THEN [regions |-> withSpool, raised |-> TRUE]
                ELSE [regions |-> Append(withSpool,
                                         CoilSpacerRegion(c, y_center, k)),
                      raised |-> FALSE]
       ELSE [regions |-> withSpool, raised |-> FALSE]

\* One iteration of the loop of model_builders.create_coils; y_start is
\* computed before the loop and raises on a None vertical_offset.
MB_create_coils ==
    /\ pc = "coils"
    /\ variant = "model_builders"
    /\ i < coil.number
    /\ IF IsNone(coil.vertical_offset)
         THEN /\ pc' = "error"
              /\ err' = "TypeError"
              /\ UNCHANGED <<regions, i>>
         ELSE LET res == MB_CoilIteration(coil, i, regions)
              IN /\ regions' = res.regions
                 /\ IF res.raised
                      THEN /\ pc' = "error"
                           /\ err' = "TypeError"
                           /\ i' = i
                      ELSE /\ err' = err
                           /\ IF i + 1 < coil.number
                                THEN /\ i' = i + 1
                                     /\ pc' = pc
                                ELSE /\ i' = 0
                                     /\ pc' = "boundary"
    /\ log' = log \o RegionCmds(regions, regions')
    /\ UNCHANGED <<paramVars, airLabel, circuits, sessionVars, runVars>>

(***************************************************************************)
(* Open boundary.                                                          *)
(***************************************************************************)
\* model_radius squared (x16): r_max**2 + h_max**2
ModelRadiusSq(c, m) ==
    LET r_max == Max(2 * c.od, 2 * m.od)
        h_stack == (m.number - 1) * m.pitch + m.length
        h_max == 2 * h_stack + 4 * c.length
    IN r_max * r_max + h_max * h_max

\* create_auto_boundary.  air_radius = 1.5 * model_radius is irrational in
\* general: the label keeps model_radius squared, rsq, and stands at
\* (air_radius / 2, air_radius * 2 / 3) = (3/4 * sqrt(rsq), sqrt(rsq)).
AirLabel(c, m) ==
    [rsq |-> ModelRadiusSq(c, m), shells |-> 7, material |-> "Air",
     circuit |-> "", angle |-> 0, group |-> 0, turns |-> 0]

\* create_auto_boundary followed by mi_saveas: the same code in CreateModel
\* and in model_builders.
create_auto_boundary ==
    /\ pc = "boundary"
    /\ airLabel' = <<AirLabel(coil, magnet)>>
    /\ log' = log \o << Cmd("mi_makeABC", "", 7), Cmd("region", "air", 0),
                         Cmd("mi_saveas", "SimGenerated.fem", 0) >>
    /\ pc' = "built"
    /\ UNCHANGED <<paramVars, i, regions, circuits, err, sessionVars, runVars>>

(***************************************************************************)
(* Kinematic / current driver.                                             *)
(***************************************************************************)
Deltas == {-1, 2}

\* 1000 * sin of a multiple of 30 degrees
Sin30(n) ==
    LET table == <<0, 500, 866, 1000, 866, 500, 0, -500, -866, -1000, -866, -500>>
    IN table[(n % 12) + 1]

\* compute_current_at_position; the phase is a multiple k of 2*pi/3 and the
\* angle a multiple of 30 degrees (pole_length divides 12)
compute_current_at_position(f, pos, k) ==
    LET angle == (12 * pos) \div f.pole_length + 4 * k
                   + (12 * f.coil_pitch) \div f.pole_length
    IN f.peak_current * Sin30(angle)

FEMMModels ==
    { [peak_current |-> 3, pole_length |-> pl, coil_pitch |-> cp] :
        pl \in {4, 12}, cp \in {5} }

\* FEMMModel.__post_init__: open the saved document
FEMMModel_post_init ==
    /\ pc = "built"
    /\ \E f \in FEMMModels : fm' = <<f>>
    /\ offset_pos' = 0
    /\ currents' = {}
    /\ pc' = "session"
    /\ log' = log \o << Cmd("openfemm", "", 1),
                         Cmd("opendocument", "SimGenerated.fem", 0),
                         Cmd("mi_probdef", "axi", 0) >>
    /\ UNCHANGED <<paramVars, i, geomVars, circuits, err, nCalls, sumDelta,
                   runVars>>

\* the selection started at group 0
MovedGroups_fromZero == 0..4

\* the groups selected by translate_and_set_currents: range(1, 5)
MovedGroups == 1..4

\* mi_movetranslate(0, delta) on the selected groups: segments (with their
\* nodes) and block labels move with the group they are tagged with
MoveTranslate(regs, delta) ==
    [k \in 1..Len(regs) |->
       LET g == regs[k]
           segMoves == g.seggroup \in MovedGroups
           lblMoves == g.group \in MovedGroups
       IN [g EXCEPT !.y0 = IF segMoves THEN @ + 4 * delta ELSE @,
                    !.y1 = IF segMoves THEN @ + 4 * delta ELSE @,
                    !.ly = IF lblMoves THEN @ + 4 * delta ELSE @]]

\* the offset assigned instead of accumulated
NewOffset_assign(pos, delta) == delta

NewOffset(pos, delta) == pos + delta

NewCurrents(f, pos) ==
    { <<"CoilA", compute_current_at_position(f, pos, 0)>>,
      <<"CoilB", compute_current_at_position(f, pos, 1)>>,
      <<"CoilC", compute_current_at_position(f, pos, -1)>> }

\* mi_setcurrent for every entry of self.currents
SetCurrents(circ, cur) ==
    { p \in circ : \A q \in cur : q[1] # p[1] }
      \cup { q \in cur : \E p \in circ : p[1] = q[1] }

\* The effect of one call on the session state s =
\* [regions, offset_pos, currents, circuits] of a FEMMModel f.
TranslateState(f, s, delta) ==
    LET pos == NewOffset(s.offset_pos, delta)
        cur == NewCurrents(f, pos)
    IN [regions |-> MoveTranslate(s.regions, delta),
        offset_pos |-> pos,
        currents |-> cur,
        circuits |-> SetCurrents(s.circuits, cur)]

\* the solver commands of one call: the move, then one mi_setcurrent per
\* entry of self.currents, in insertion order
TranslateCmds(f, pos, delta) ==
    << Cmd("mi_movetranslate", "", delta),
       Cmd("mi_setcurrent", "CoilA", compute_current_at_position(f, pos, 0)),
       Cmd("mi_setcurrent", "CoilB", compute_current_at_position(f, pos, 1)),
       Cmd("mi_setcurrent", "CoilC", compute_current_at_position(f, pos, -1)) >>

SessionState ==
    [regions |-> regions, offset_pos |-> offset_pos, currents |-> currents,
     circuits |-> circuits]

translate_and_set_currents(delta) ==
    /\ pc = "session"
    /\ nCalls < MaxCalls
    /\ LET t == TranslateState(Val(fm), SessionState, delta)
       IN /\ regions' = t.regions
          /\ offset_pos' = t.offset_pos
          /\ currents' = t.currents
          /\ circuits' = t.circuits
    /\ nCalls' = nCalls + 1
    /\ sumDelta' = sumDelta + delta
    /\ log' = log \o TranslateCmds(Val(fm), offset_pos', delta)
    /\ UNCHANGED <<paramVars, pc, i, airLabel, err, fm, runVars>>


(***************************************************************************)
(* sim_base.py: the single-file variant of the program.  Its               *)
(* create_magnets and create_coils are the code of create_model.py, but    *)
(* its validate_params lets None fields through to them.                   *)
(***************************************************************************)
NullIn(section, fields) == \E f \in fields : <<section, f>> \in nullFields

\* One iteration of the loop of sim_base.CreateModel.create_magnets; the
\* arithmetic on a None number, pitch, length or od raises TypeError before
\* the iteration draws anything.
SB_create_magnets ==
    /\ pc = "magnets"
    /\ variant = "sim_base"
    /\ IF NullIn("Magnet", {"number", "pitch", "length", "od"})
         THEN /\ pc' = "error"
              /\ err' = "TypeError"
              /\ UNCHANGED <<regions, i>>
         ELSE /\ i < magnet.number
              /\ regions' = Append(regions, MagnetRegion(magnet, i))
              /\ err' = err
              /\ IF i + 1 < magnet.number
                   THEN /\ i' = i + 1
                        /\ pc' = pc
                   ELSE /\ i' = 0
                        /\ pc' = "coils"
    /\ log' = log \o RegionCmds(regions, regions')
    /\ UNCHANGED <<paramVars, airLabel, circuits, sessionVars, runVars>>

\* One iteration of the loop of sim_base.CreateModel.create_coils; a None
\* nb_turn raises after the nodes and segments of the coil were drawn.
SB_create_coils ==
    /\ pc = "coils"
    /\ variant = "sim_base"
    /\ IF NullIn("Coil", {"number", "pitch", "length", "od", "id"})
         THEN /\ pc' = "error"
              /\ err' = "TypeError"
              /\ log' = log
              /\ UNCHANGED <<regions, i>>
       ELSE IF NullIn("Coil", {"nb_turn"})
         THEN /\ pc' = "error"
              /\ err' = "TypeError"
              /\ log' = Append(log, Cmd("mi_addnode", "coil", i))
              /\ UNCHANGED <<regions, i>>
         ELSE /\ i < coil.number
              /\ LET y_start == -(2 * (coil.number - 1) * coil.pitch)
                 IN regions' = Append(regions, CoilRegion(coil, y_start, i))
              /\ log' = log \o RegionCmds(regions, regions')
              /\ err' = err
              /\ IF i + 1 < coil.number
                   THEN /\ i' = i + 1
                        /\ pc' = pc
                   ELSE /\ i' = 0
                        /\ pc' = "boundary"
    /\ UNCHANGED <<paramVars, airLabel, circuits, sessionVars, runVars>>

(***************************************************************************)
(* __main__ and run_simulation.                                            *)
(***************************************************************************)
\* simulate.py, "generate" mode, after build: model_builder.coil_params is
\* not an attribute of CreateModel; AttributeError is caught and the program
\* exits with status 1.
SIM_main_generate_params ==
    /\ pc = "built"
    /\ prog.module = "simulate"
    /\ pc' = "exit"
    /\ err' = "AttributeError"
    /\ UNCHANGED <<paramVars, i, geomVars, circuits, sessionVars, log, runVars>>

\* the document of SimuFile.fem, opened in "load" mode: a saved model
SimuFileMagnet == LoadMagnet("simulate", MagnetSection(FALSE))
SimuFileCoil == LoadCoil("simulate", CoilSection)
SimuFileRegions ==
    [k \in 1..SimuFileMagnet.number |-> MagnetRegion(SimuFileMagnet, k - 1)]
      \o [k \in 1..SimuFileCoil.number |->
            CoilRegion(SimuFileCoil,
                       -(2 * (SimuFileCoil.number - 1) * SimuFileCoil.pitch),
                       k - 1)]

\* __main__ constructs FEMMModel: after build in sim_base.py, or on
\* SimuFile.fem in "load" mode; FEMMModel opens the solver and the document.
main_FEMMModel ==
    /\ \/ pc = "built" /\ prog.module = "sim_base"
       \/ pc = "main" /\ prog.mode = "load"
    /\ \E f \in FEMMModels : fm' = <<f>>
    /\ offset_pos' = 0
    /\ currents' = {}
    /\ IF prog.mode = "load"
         THEN /\ regions' = SimuFileRegions
              /\ circuits' = { <<"CoilA", 0>>, <<"CoilB", 0>>, <<"CoilC", 0>> }
         ELSE UNCHANGED <<regions, circuits>>
    /\ log' = log \o << Cmd("openfemm", "", 1),
                        Cmd("opendocument",
                            IF prog.mode = "load" THEN "SimuFile.fem"
                                                  ELSE "SimGenerated.fem", 0),
                        Cmd("mi_probdef", "axi", 0) >>
    /\ pc' = "rs_translate"
    /\ UNCHANGED <<paramVars, i, airLabel, err, nCalls, sumDelta, runVars>>

MaxSpan == 3

Sweeps ==
    { [start |-> a, end |-> a + d, step |-> st] :
        a \in {-2, 0}, d \in -1..MaxSpan, st \in {1, 2} }

\* the range taken with its end point
ArangeLen_inclusive(sw) == Max(0, (sw.end - sw.start) \div sw.step + 1)

\* len(np.arange(start, end, step)) for step > 0: ceil((end - start) / step)
ArangeLen(sw) == Max(0, -((sw.start - sw.end) \div sw.step))

\* run_simulation: translate_and_set_currents(start) before the loop,
\* translate_and_set_currents(step) in it
run_simulation_translate ==
    /\ pc = "rs_translate"
    /\ LET delta == IF results = <<>> THEN sweep.start ELSE sweep.step
           t == TranslateState(Val(fm), SessionState, delta)
       IN /\ regions' = t.regions
          /\ offset_pos' = t.offset_pos
          /\ currents' = t.currents
          /\ circuits' = t.circuits
          /\ nCalls' = nCalls + 1
          /\ sumDelta' = sumDelta + delta
          /\ log' = log \o TranslateCmds(Val(fm), t.offset_pos, delta)
    /\ pc' = "rs_solve"
    /\ UNCHANGED <<paramVars, i, airLabel, err, fm, runVars>>

\* the failed position skipped and the sweep going on
AfterSolve_skip(ok) == IF ok THEN "rs_extract" ELSE "rs_translate"

\* run_simulation has no try around mesh_and_solve: its exception leaves
\* run_simulation
AfterSolve(ok) == IF ok THEN "rs_extract" ELSE "error"

\* FEMMModel.mesh_and_solve, called by run_simulation: mi_saveas,
\* mi_createmesh, mi_analyze; a solver failure is an exception that nothing
\* in run_simulation catches.
mesh_and_solve ==
    /\ pc = "rs_solve"
    /\ log' = log \o << Cmd("mi_saveas", "SimOutput.fem", 0),
                        Cmd("mi_createmesh", "", 0), Cmd("mi_analyze", "", 0) >>
    /\ \E ok \in BOOLEAN :
         /\ pc' = AfterSolve(ok)
         /\ err' = IF ok THEN err ELSE "SolverError"
    /\ UNCHANGED <<paramVars, i, geomVars, circuits, sessionVars, runVars>>

\* the current of a circuit in a set of <<name, current>>
CurrentOf(cur, name) == (CHOOSE p \in cur : p[1] = name)[2]

\* mo_blockintegral(19) over the selected groups: the force on each selected
\* winding (here its current) plus, for more than one group, the mutual term
\* of the field solution
BlockIntegral(sel, cur, mutual) ==
    (IF 1 \in sel THEN CurrentOf(cur, "CoilA") ELSE 0)
    + (IF 2 \in sel THEN CurrentOf(cur, "CoilB") ELSE 0)
    + (IF 3 \in sel THEN CurrentOf(cur, "CoilC") ELSE 0)
    + (IF Cardinality(sel) > 1 THEN mutual ELSE 0)

\* the per-phase loop without its mo_clearblock
MoProgram_noClear ==
    << <<"mo_groupselectblock", 1>>, <<"mo_blockintegral", "CoilA">>,
       <<"mo_groupselectblock", 2>>, <<"mo_blockintegral", "CoilB">>,
       <<"mo_groupselectblock", 3>>, <<"mo_blockintegral", "CoilC">>,
       <<"mo_clearblock", 0>>,
       <<"mo_groupselectblock", 1>>, <<"mo_groupselectblock", 2>>,
       <<"mo_groupselectblock", 3>>, <<"mo_blockintegral", "Sum">>,
       <<"mo_clearblock", 0>> >>

\* the post-processor commands of _compute_forces, in order
MoProgram ==
    << <<"mo_clearblock", 0>>, <<"mo_groupselectblock", 1>>,
       <<"mo_blockintegral", "CoilA">>,
       <<"mo_clearblock", 0>>, <<"mo_groupselectblock", 2>>,
       <<"mo_blockintegral", "CoilB">>,
       <<"mo_clearblock", 0>>, <<"mo_groupselectblock", 3>>,
       <<"mo_blockintegral", "CoilC">>,
       <<"mo_clearblock", 0>>,
       <<"mo_groupselectblock", 1>>, <<"mo_groupselectblock", 2>>,
       <<"mo_groupselectblock", 3>>, <<"mo_blockintegral", "Sum">>,
       <<"mo_clearblock", 0>> >>

\* One post-processor command on st = [sel, force, used]: force is
\* results["Force"], used the selection each integral was taken with.
MoStep(st, c, cur, mutual) ==
    IF c[1] = "mo_clearblock" THEN [st EXCEPT !.sel = {}]
    ELSE IF c[1] = "mo_groupselectblock" THEN [st EXCEPT !.sel = @ \cup {c[2]}]
    ELSE [st EXCEPT !.force = @ \cup { <<c[2], BlockIntegral(st.sel, cur, mutual)>> },
                    !.used = @ \cup { <<c[2], st.sel>> }]

RECURSIVE RunMo(_, _, _, _, _)
RunMo(program, k, st, cur, mutual) ==
    IF k > Len(program) THEN st
    ELSE RunMo(program, k + 1, MoStep(st, program[k], cur, mutual), cur, mutual)

\* SimulationResult._compute_forces from the block selection sel
compute_forces(sel, cur, mutual) ==
    RunMo(MoProgram, 1, [sel |-> sel, force |-> {}, used |-> {}], cur, mutual)

\* the loop going on with a solve
AfterExtract_solve(rem) == IF rem > 0 THEN "rs_solve" ELSE "done"

\* the for loop of run_simulation: its body starts with a translate
AfterExtract(rem) == IF rem > 0 THEN "rs_translate" ELSE "done"

\* results.append(SimulationResult(femm_model).results), then the for loop
\* of run_simulation goes on or ends
run_simulation_extract ==
    /\ pc = "rs_extract"
    /\ LET f == compute_forces(blockSel, circuits, solver.mutual)
       IN /\ results' = Append(results,
                               [Position |-> offset_pos, Current |-> currents,
                                Force |-> f.force, used |-> f.used])
          /\ blockSel' = f.sel
    /\ log' = log \o << Cmd("mi_loadsolution", "", 0), Cmd("mo_smooth", "off", 0),
                        Cmd("mo_hidecontourplot", "", 0) >>
                  \o [k \in 1..Len(MoProgram) |->
                        Cmd(MoProgram[k][1], "", 0)]
    /\ remaining' = IF results = <<>> THEN ArangeLen(sweep) ELSE remaining - 1
    /\ pc' = AfterExtract(remaining')
    /\ UNCHANGED <<paramVars, i, geomVars, circuits, err, sessionVars,
                   configVars, sweep, solver>>

Next ==
    \/ create_circuits
    \/ CM_create_magnets
    \/ MB_create_magnets
    \/ MB_create_magnets_tube
    \/ CM_create_coils
    \/ MB_create_coils
    \/ create_auto_boundary
    \/ FEMMModel_post_init
    \/ \E delta \in Deltas : translate_and_set_currents(delta)

Spec == Init /\ [][Next]_vars

(***************************************************************************)
(* The whole program: __main__ of simulate.py or of sim_base.py, in        *)
(* "generate" or in "load" mode.                                           *)
(***************************************************************************)
Programs ==
    { [module |-> m, mode |-> md] :
        m \in {"simulate", "sim_base"}, md \in {"generate", "load"} }

DefaultSweep == [start |-> 0, end |-> 1, step |-> 1]

InitRun ==
    /\ prog \in Programs
    /\ variant = IF prog.module = "sim_base" THEN "sim_base" ELSE "CreateModel"
    /\ cfg \in IF prog.mode = "generate"
                 THEN ValidConfigs \cup InvalidConfigs
                 ELSE { c \in ValidConfigs : Cardinality(c.sections) = 2 }
    /\ sweep \in IF cfg \in ValidConfigs THEN Sweeps ELSE {DefaultSweep}
    /\ solver \in IF cfg \in ValidConfigs
                    THEN {[mutual |-> 0], [mutual |-> 7]}
                    ELSE {[mutual |-> 0]}
    /\ magnet = LoadMagnet("simulate", {})
    /\ coil = LoadCoil("simulate", {})
    /\ nullFields = {}
    /\ pc = "main"
    /\ i = 0
    /\ regions = <<>>
    /\ airLabel = <<>>
    /\ circuits = {}
    /\ err = ""
    /\ fm = <<>>
    /\ offset_pos = 0
    /\ currents = {}
    /\ nCalls = 0
    /\ sumDelta = 0
    /\ log = <<>>
    /\ materials = [added |-> <<>>, failed |-> <<>>]
    /\ remaining = 0
    /\ results = <<>>
    /\ blockSel = {}

NextRun ==
    \/ load_model_parameters
    \/ validate_params
    \/ build_open_document
    \/ import_materials_property
    \/ create_circuits
    \/ CM_create_magnets
    \/ CM_create_coils
    \/ SB_create_magnets
    \/ SB_create_coils
    \/ create_auto_boundary
    \/ SIM_main_generate_params
    \/ main_FEMMModel
    \/ run_simulation_translate
    \/ mesh_and_solve
    \/ run_simulation_extract

SpecRun == InitRun /\ [][NextRun]_vars

(***************************************************************************)
(* create_coils alone, in its three variants, on a wider set of coils.     *)
(***************************************************************************)
\* Spool fields: defaults; no spool; an enclosing spool; a spool wider
\* inside than the coil; one narrower outside; one without flange; one
\* with inner diameter 0.
CoilSpoolsWide ==
    { [spool_id |-> None, spool_od |-> None, spool_flange_width |-> None],
      [spool_id |-> Some(0), spool_od |-> Some(0), spool_flange_width |-> Some(0)],
      [spool_id |-> Some(4), spool_od |-> Some(22), spool_flange_width |-> Some(1)],
      [spool_id |-> Some(8), spool_od |-> Some(22), spool_flange_width |-> Some(1)],
      [spool_id |-> Some(4), spool_od |-> Some(10), spool_flange_width |-> Some(1)],
      [spool_id |-> Some(4), spool_od |-> Some(22), spool_flange_width |-> Some(0)],
      [spool_id |-> Some(0), spool_od |-> Some(22), spool_flange_width |-> Some(1)] }

CoilsWide ==
    { [id |-> 6, od |-> 12, length |-> 3, pitch |-> p, material |-> "C",
       spacer_material |-> "Sp", nb_turn |-> 50, number |-> n,
       current_peak |-> None, vertical_offset |-> v,
       spool_id |-> s.spool_id, spool_od |-> s.spool_od,
       spool_flange_width |-> s.spool_flange_width,
       spool_material |-> "Spool",
       tube_id |-> None, tube_od |-> None, tube_material |-> "None"] :
         p \in {5, 7}, n \in 1..MaxCoils,
         v \in {None, Some(0), Some(3)}, s \in CoilSpoolsWide }

\* create_coils is called on a document that has its circuits and magnets
InitCoils ==
    /\ variant \in {"CreateModel", "model_builders", "sim_base"}
    /\ coil \in CoilsWide
    /\ magnet = [od |-> 10, length |-> 4, pitch |-> 5, material |-> "M",
                 spacer_material |-> "Sp", number |-> 1,
                 tube_od |-> Some(0), tube_material |-> "None"]
    /\ pc = "coils"
    /\ i = 0
    /\ regions = <<>>
    /\ airLabel = <<>>
    /\ circuits = { <<"CoilA", 0>>, <<"CoilB", 0>>, <<"CoilC", 0>> }
    /\ err = ""
    /\ fm = <<>>
    /\ offset_pos = 0
    /\ currents = {}
    /\ nCalls = 0
    /\ sumDelta = 0
    /\ prog = [module |-> "geometry", mode |-> "generate"]
    /\ cfg = <<>>
    /\ nullFields = {}
    /\ log = <<>>
    /\ materials = [added |-> <<>>, failed |-> <<>>]
    /\ sweep = <<>>
    /\ remaining = 0
    /\ results = <<>>
    /\ blockSel = {}
    /\ solver = [mutual |-> 0]

NextCoils ==
    \/ CM_create_coils
    \/ MB_create_coils
    \/ SB_create_coils

SpecCoils == InitCoils /\ [][NextCoils]_vars

(***************************************************************************)
(* Properties.                                                             *)
(***************************************************************************)
OfKind(kind) == SelectSeq(regions, LAMBDA g : g.kind = kind)
MagnetSeq == OfKind("magnet")
CoilSeq == OfKind("coil")
MagnetsDone == pc \notin {"circuits", "magnets"}
Sq(a) == a * a

\* C1: for every Magnet with number = N, once the magnet stack has been
\* synthesised there are exactly N magnet regions, and max(0, N-1) magnet
\* spacers when length < pitch, none when length >= pitch -- in
\* CreateModel.create_magnets as well as in model_builders.create_magnets.
C1_MagnetAndSpacerCount ==
    MagnetsDone =>
      /\ Len(MagnetSeq) = magnet.number
      /\ Len(OfKind("magnet_spacer")) =
           IF magnet.length < magnet.pitch THEN Max(0, magnet.number - 1) ELSE 0

ExpectedLabel(n, k) ==
    CASE (n - 1 - k) % 3 = 0 -> "A"
      [] (n - 1 - k) % 3 = 1 -> "B"
      [] (n - 1 - k) % 3 = 2 -> "C"

ExpectedGroup(label) ==
    CASE label = "A" -> 1 [] label = "B" -> 2 [] label = "C" -> 3

\* C3: coil region k of N is in circuit "Coil" + L with L the element
\* (N-1-k) mod 3 of [A, B, C], and the group of its block label and of its
\* segments is 1 for A, 2 for B, 3 for C, whatever the other parameters.
C3_CoilLabelCycle ==
    \A j \in 1..Len(CoilSeq) :
      LET L == ExpectedLabel(coil.number, j - 1)
      IN /\ CoilSeq[j].circuit = "Coil" \o L
         /\ CoilSeq[j].group = ExpectedGroup(L)
         /\ CoilSeq[j].seggroup = ExpectedGroup(L)

C3_Witness ==
    /\ variant = "model_builders"
    /\ coil.number = 5
    /\ coil.pitch = 7
    /\ Len(CoilSeq) = 5
    /\ \E k \in 1..Len(regions) : regions[k].kind = "spool"
    /\ CoilSeq[1].circuit = "CoilB"
    /\ CoilSeq[5].circuit = "CoilA"

\* C4: the turn count of coil region k has magnitude nb_turn, negative for
\* phase B and positive for phases A and C when k // 3 is even, and the
\* opposite when k // 3 is odd.
C4_TurnSignBNegative ==
    \A j \in 1..Len(CoilSeq) :
      LET isB == CoilSeq[j].circuit = "CoilB"
      IN IF ((j - 1) \div 3) % 2 = 0
           THEN CoilSeq[j].turns = IF isB THEN -coil.nb_turn ELSE coil.nb_turn
           ELSE CoilSeq[j].turns = IF isB THEN coil.nb_turn ELSE -coil.nb_turn

IsScenario ==
    /\ magnet = [od |-> 10, length |-> 4, pitch |-> 5, material |-> "M",
                 spacer_material |-> "None", number |-> 3, tube_od |-> None,
                 tube_material |-> "None"]
    /\ coil = [id |-> 6, od |-> 12, length |-> 3, pitch |-> 5,
               material |-> "C", spacer_material |-> "None", nb_turn |-> 100,
               number |-> 6, current_peak |-> None, vertical_offset |-> None,
               spool_id |-> None, spool_od |-> None,
               spool_flange_width |-> None, spool_material |-> "None",
               tube_id |-> None, tube_od |-> None, tube_material |-> "None"]

\* C6: in the end-to-end scenario geometry synthesis completes and emits 3
\* magnets, 2 magnet spacers and 6 coils, with circuits C,B,A,C,B,A and turns
\* A:-100, B:+100, C:-100 for coils 0..2, the flipped signs for coils 3..5.
C6_EndToEnd ==
    (IsScenario /\ pc \in {"error", "built", "session"}) =>
      /\ pc # "error"
      /\ Len(MagnetSeq) = 3
      /\ Len(OfKind("magnet_spacer")) = 2
      /\ Len(CoilSeq) = 6
      /\ [j \in 1..6 |-> CoilSeq[j].circuit] =
           <<"CoilC", "CoilB", "CoilA", "CoilC", "CoilB", "CoilA">>
      /\ [j \in 1..6 |-> CoilSeq[j].turns] = <<-100, 100, -100, 100, -100, 100>>

\* air_radius = 1.5 * sqrt(rsq) exceeds a >= 0 (both x4): 9 * rsq > 4 * a^2
AirRadiusExceeds(rsq, a) == 9 * rsq > 4 * Sq(a)

\* C7: air_radius strictly exceeds the largest radial and the largest axial
\* distance from the origin of every magnet, magnet spacer, tube, coil, spool
\* and coil spacer that create_magnets and create_coils emitted.
C7_AirRadiusEncloses ==
    pc = "built" =>
      \A k \in 1..Len(regions) :
        /\ AirRadiusExceeds(airLabel[1].rsq,
                            Max(Abs(regions[k].x0), Abs(regions[k].x1)))
        /\ AirRadiusExceeds(airLabel[1].rsq,
                            Max(Abs(regions[k].y0), Abs(regions[k].y1)))

\* The "Air" label (3/4 * sqrt(rsq), sqrt(rsq)) lies in the closed rectangle g.
AirLabelInRect(rsq, g) ==
    /\ (g.x0 <= 0 \/ 9 * rsq >= 16 * Sq(g.x0))
    /\ g.x1 >= 0 /\ 9 * rsq <= 16 * Sq(g.x1)
    /\ (g.y0 <= 0 \/ rsq >= Sq(g.y0))
    /\ g.y1 >= 0 /\ rsq <= Sq(g.y1)

\* C8: the point (air_radius/2, air_radius*2/3) of the "Air" label is strictly
\* inside the circle of radius air_radius and outside every rectangle emitted
\* for a magnet, magnet spacer, tube, coil, spool or coil spacer.
C8_AirLabelInAir ==
    pc = "built" =>
      /\ 9 * airLabel[1].rsq + 16 * airLabel[1].rsq < 36 * airLabel[1].rsq
      /\ \A k \in 1..Len(regions) : ~AirLabelInRect(airLabel[1].rsq, regions[k])

\* C9: translate_and_set_currents is additive: from any session state, d1 then
\* d2 leaves the offset, the region positions and the three currents that one
\* call with d1 + d2 leaves; offset_pos is its initial value (0) plus the sum
\* of the deltas, and after a call the currents of FEMMModel and of the
\* circuits are those computed at offset_pos.
C9_TranslateAdditive ==
    pc = "session" =>
      /\ \A d1, d2 \in Deltas :
           TranslateState(Val(fm), TranslateState(Val(fm), SessionState, d1), d2)
             = TranslateState(Val(fm), SessionState, d1 + d2)
      /\ offset_pos = sumDelta
      /\ nCalls > 0 =>
           /\ currents =
                { <<"CoilA", compute_current_at_position(Val(fm), sumDelta, 0)>>,
                  <<"CoilB", compute_current_at_position(Val(fm), sumDelta, 1)>>,
                  <<"CoilC", compute_current_at_position(Val(fm), sumDelta, -1)>> }
           /\ circuits = currents

C9_Witness ==
    /\ pc = "session"
    /\ nCalls = 2
    /\ offset_pos = 1
    /\ \E p \in currents : p[2] # 0

GeometryAsBuilt(g) ==
    \/ /\ g.kind = "magnet"
       /\ g.y0 = StackCenter(magnet.number, magnet.pitch, g.idx) - 2 * magnet.length
       /\ g.y1 = StackCenter(magnet.number, magnet.pitch, g.idx) + 2 * magnet.length
       /\ g.ly = StackCenter(magnet.number, magnet.pitch, g.idx)
    \/ /\ g.kind = "magnet_spacer"
       /\ g.y0 = StackCenter(magnet.number, magnet.pitch, g.idx) + 2 * magnet.length
       /\ g.y1 = StackCenter(magnet.number, magnet.pitch, g.idx + 1) - 2 * magnet.length
       /\ 2 * g.ly = g.y0 + g.y1
    \/ /\ g.kind = "tube"
       /\ g.y0 = -(2 * magnet.number * magnet.pitch)
       /\ g.y1 = 2 * magnet.number * magnet.pitch
       /\ g.ly = 0

\* A step that calls translate_and_set_currents with delta = d moves the
\* segments and the label of every region of groups 1..4 by d along y and
\* nothing else.
TranslateFrame ==
    nCalls' = nCalls + 1 =>
      LET d == sumDelta' - sumDelta
      IN /\ Len(regions') = Len(regions)
         /\ airLabel' = airLabel
         /\ \A k \in 1..Len(regions) :
              LET g == regions[k]
                  h == regions'[k]
              IN IF g.kind \in {"coil", "spool", "coil_spacer"}
                   THEN /\ g.group \in 1..4
                        /\ h = [g EXCEPT !.y0 = @ + 4 * d, !.y1 = @ + 4 * d,
                                         !.ly = @ + 4 * d]
                   ELSE /\ g.group = 0
                        /\ h = g

\* C10: every call to translate_and_set_currents moves exactly the regions of
\* groups 1, 2, 3 and 4 (coils, spools, coil spacers) by delta along the axis
\* and leaves the group-0 regions (magnets, magnet spacers, tube, air label)
\* where they are; after any sequence of calls the magnet stack is where
\* geometry synthesis placed it.
C10_MagnetsNeverMove ==
    /\ [][TranslateFrame]_vars
    /\ [](pc = "session" =>
            \A k \in 1..Len(regions) :
              regions[k].group = 0 => GeometryAsBuilt(regions[k]))

C10_Witness ==
    /\ pc = "session"
    /\ nCalls = 2
    /\ sumDelta = 4
    /\ \E k \in 1..Len(regions) : regions[k].kind = "tube"
    /\ \E k \in 1..Len(regions) : regions[k].kind = "magnet_spacer"
    /\ \E k \in 1..Len(regions) : regions[k].kind = "spool"
    /\ \E k \in 1..Len(regions) : regions[k].kind = "coil_spacer"

(***************************************************************************)
(* The sweep of run_simulation.                                            *)
(***************************************************************************)
ExactSweep ==
    /\ sweep.step > 0
    /\ sweep.end >= sweep.start
    /\ (sweep.end - sweep.start) % sweep.step = 0

\* C11: a sweep with step > 0 and end - start a non-negative multiple of
\* step returns floor((end - start) / step) + 1 samples, the k-th one
\* recorded at position start + (k - 1) * step.
C11_SampleCountAndPositions ==
    (pc = "done" /\ ExactSweep)
      => /\ Len(results) = (sweep.end - sweep.start) \div sweep.step + 1
         /\ \A k \in 1..Len(results) :
              results[k].Position = sweep.start + (k - 1) * sweep.step

C11_Witness ==
    /\ pc = "done"
    /\ ExactSweep
    /\ sweep.start # 0
    /\ Len(results) >= 3

\* the commands issued after the FEMMModel opened its document
SweepLog ==
    IF \E k \in 1..Len(log) : log[k].cmd = "opendocument"
      THEN LET last == CHOOSE k \in 1..Len(log) :
                         /\ log[k].cmd = "opendocument"
                         /\ \A j \in (k + 1)..Len(log) : log[j].cmd # "opendocument"
           IN SubSeq(log, last + 2, Len(log))
      ELSE <<>>

Phase(c) ==
    IF c.cmd \in {"mi_movetranslate", "mi_setcurrent"} THEN "translate"
    ELSE IF c.cmd \in {"mi_saveas", "mi_createmesh", "mi_analyze"} THEN "solve"
    ELSE IF c.cmd \in {"mi_loadsolution", "mo_smooth", "mo_hidecontourplot",
                       "mo_clearblock", "mo_groupselectblock",
                       "mo_blockintegral"} THEN "extract"
    ELSE "other"

\* the phases of the commands of one sweep step
StepPattern ==
    [k \in 1..4 |-> "translate"] \o [k \in 1..3 |-> "solve"]
      \o [k \in 1..(3 + Len(MoProgram)) |-> "extract"]

RECURSIVE MovedUpTo(_)
MovedUpTo(n) ==
    IF n = 0 THEN 0
    ELSE MovedUpTo(n - 1) + SweepLog[(n - 1) * Len(StepPattern) + 1].val

\* C12: the commands of a sweep are, step after step, those of a translate,
\* then of a solve, then of an extraction; so every solve follows the
\* translate of its own step, and a sample holds the position and the
\* currents that this translate set.
C12_StepOrder ==
    /\ \A k \in 1..Len(SweepLog) :
         Phase(SweepLog[k]) = StepPattern[((k - 1) % Len(StepPattern)) + 1]
    /\ \A n \in 1..Len(results) :
         LET b == (n - 1) * Len(StepPattern)
         IN /\ results[n].Current =
                 { <<SweepLog[b + j].name, SweepLog[b + j].val>> : j \in 2..4 }
            /\ results[n].Position = MovedUpTo(n)

C12_Witness ==
    /\ pc = "done"
    /\ Len(results) >= 2
    /\ results[1].Current # results[2].Current
    /\ Len(SweepLog) = Len(results) * Len(StepPattern)

(***************************************************************************)
(* CreateModel.build.                                                      *)
(***************************************************************************)
\* C13: with a configuration whose root is not a mapping, that lacks the
\* Magnet or the Coil section, or in which a required field is null or
\* missing, build ends in an error and no solver command is ever issued.
C13_InvalidConfigNoSolverCall ==
    cfg \in InvalidConfigs => log = <<>>

\* the same for the build of create_model.py alone
C13_CreateModelOnly ==
    (cfg \in InvalidConfigs /\ prog.module = "simulate")
      => /\ log = <<>>
         /\ pc \in {"main", "validate", "error"}

\* the build has gone past import_materials_property
Imported == prog.mode = "generate" /\ log # <<>> /\ pc # "materials"

MaterialCmds == SelectSeq(log, LAMBDA c : c.cmd = "mi_getmaterial")

\* the string values under a key whose lower case contains "material", in
\* the sections that are mappings
ConfiguredMaterials ==
    { m \in { MaterialOrder[k] : k \in 1..Len(MaterialOrder) } :
        \E sec \in cfg.sections :
          /\ sec.is_dict
          /\ \E e \in sec.entries :
               ContainsMaterial(KeyLower(e[1])) /\ e[2] = Str(m) }

\* C14: import_materials_property submits once each configured material and
\* "Air"; the rejected ones are recorded as failed, the others as added, no
\* error is raised and the build goes on with the circuits.
C14_MaterialsSubmittedOnce ==
    Imported
      => /\ { MaterialCmds[k].name : k \in 1..Len(MaterialCmds) }
              = ConfiguredMaterials \cup {"Air"}
         /\ Len(MaterialCmds) = Cardinality(ConfiguredMaterials \cup {"Air"})
         /\ Len(materials.added) + Len(materials.failed) = Len(MaterialCmds)
         /\ \A k \in 1..Len(MaterialCmds) :
              \/ \E j \in 1..Len(materials.added) :
                   materials.added[j] = MaterialCmds[k].name
              \/ \E j \in 1..Len(materials.failed) :
                   materials.failed[j] = MaterialCmds[k].name
         /\ (pc = "circuits" => err = "")
         /\ (pc # "circuits" =>
               \E k \in 1..Len(log) : log[k].cmd = "mi_addcircprop")

C14_Witness ==
    /\ pc = "built"
    /\ Len(materials.failed) = 2
    /\ Len(materials.added) = 2
    /\ \E k \in 1..Len(MaterialCmds) : MaterialCmds[k].name = "Sp"

GeometryCmd(c) == c.cmd \in {"region", "mi_makeABC", "mi_addnode"}

\* C15: the circuits CoilA, CoilB, CoilC are added in this order with
\* current 0 before any geometry, and the model is saved after the last
\* region, the Air label included.
C15_CircuitsFirstSaveLast ==
    /\ \A k \in 1..Len(log) :
         GeometryCmd(log[k])
           => \E c \in 1..(k - 3) :
                /\ log[c] = Cmd("mi_addcircprop", "CoilA", 0)
                /\ log[c + 1] = Cmd("mi_addcircprop", "CoilB", 0)
                /\ log[c + 2] = Cmd("mi_addcircprop", "CoilC", 0)
    /\ Cardinality({ k \in 1..Len(log) : log[k].cmd = "mi_addcircprop" }) <= 3
    /\ \A s \in 1..Len(log) :
         log[s] = Cmd("mi_saveas", "SimGenerated.fem", 0)
           => /\ \A k \in (s + 1)..Len(log) :
                   ~GeometryCmd(log[k]) /\ log[k].cmd # "mi_addcircprop"
              /\ log[s - 1] = Cmd("region", "air", 0)
              /\ Cardinality({ k \in 1..s : log[k].cmd = "region" })
                   = Len(regions) + 1

C15_Witness ==
    /\ prog.mode = "generate"
    /\ pc = "built"
    /\ err = ""
    /\ Len(regions) = 5

ForceOf(sample, name) == (CHOOSE p \in sample.Force : p[1] = name)[2]

\* C16: the force of each phase is an integral over its group alone, Sum is
\* the integral over the groups 1, 2, 3 together, not the sum of the three
\* phase values, and extraction leaves the block selection empty.
C16_ForceSelections ==
    /\ \A n \in 1..Len(results) :
         /\ results[n].used = { <<"CoilA", {1}>>, <<"CoilB", {2}>>,
                                <<"CoilC", {3}>>, <<"Sum", {1, 2, 3}>> }
         /\ ForceOf(results[n], "Sum")
              = BlockIntegral({1, 2, 3}, results[n].Current, solver.mutual)
         /\ \A g \in 1..3 :
              ForceOf(results[n], <<"CoilA", "CoilB", "CoilC">>[g])
                = BlockIntegral({g}, results[n].Current, solver.mutual)
    /\ (results # <<>> => blockSel = {})

C16_Witness ==
    /\ results # <<>>
    /\ blockSel = {}
    /\ ForceOf(results[1], "Sum")
         # ForceOf(results[1], "CoilA") + ForceOf(results[1], "CoilB")
             + ForceOf(results[1], "CoilC")
    /\ ForceOf(results[1], "CoilA") # 0

\* C17: over a run that builds the model and then sweeps, the solver
\* session is opened once.
C17_SessionOpenedOnce ==
    Cardinality({ k \in 1..Len(log) : log[k].cmd = "openfemm" }) <= 1

Failed == err = "SolverError"

\* C18: after mesh_and_solve has failed nothing more happens: the run is in
\* error, the last command is the failed solve, and the samples are those
\* of the positions before it.
C18_FailureAborts ==
    /\ [][~Failed]_vars
    /\ [](Failed =>
            /\ pc = "error"
            /\ log[Len(log)].cmd = "mi_analyze"
            /\ Len(SweepLog) = Len(results) * Len(StepPattern) + 7)

C18_Witness ==
    /\ Failed
    /\ Len(results) >= 1
    /\ remaining > 0

(***************************************************************************)
(* model_builders.create_magnets: spacers and tube.                        *)
(***************************************************************************)
\* the magnets and magnet spacers, in emission order
MagnetStack ==
    SelectSeq(regions, LAMBDA g : g.kind \in {"magnet", "magnet_spacer"})

\* C19: the spacer after magnet i spans the radius [0, od/2] and the height
\* [y_center_i + length/2, y_center_i + pitch - length/2] with
\* spacer_material; it starts where magnet i ends and ends where magnet i+1
\* starts, so that the stack has neither overlap nor gap.
C19_SpacerFillsGap ==
    (variant = "model_builders" /\ magnet.length <= magnet.pitch)
      => /\ \A k \in 1..Len(regions) :
              regions[k].kind = "magnet_spacer"
                => LET g == regions[k]
                       y_center == StackCenter(magnet.number, magnet.pitch, g.idx)
                   IN /\ magnet.length < magnet.pitch
                      /\ g.idx < magnet.number - 1
                      /\ g.x0 = 0
                      /\ g.x1 = 2 * magnet.od
                      /\ g.y0 = y_center + 2 * magnet.length
                      /\ g.y1 = y_center + 4 * magnet.pitch - 2 * magnet.length
                      /\ g.material = magnet.spacer_material
                      /\ regions[k - 1].kind = "magnet"
                      /\ regions[k - 1].idx = g.idx
                      /\ regions[k - 1].y1 = g.y0
         /\ \A k \in 1..(Len(MagnetStack) - 1) :
              /\ MagnetStack[k].y0 < MagnetStack[k].y1
              /\ MagnetStack[k].y1 = MagnetStack[k + 1].y0
         /\ (MagnetsDone /\ magnet.length < magnet.pitch)
              => \A j \in 0..(magnet.number - 2) :
                   \E k \in 1..(Len(MagnetStack) - 1) :
                     /\ MagnetStack[k].kind = "magnet_spacer"
                     /\ MagnetStack[k].idx = j
                     /\ MagnetStack[k + 1].kind = "magnet"
                     /\ MagnetStack[k + 1].idx = j + 1

C19_Witness ==
    /\ variant = "model_builders"
    /\ MagnetsDone
    /\ magnet.length < magnet.pitch
    /\ Len(MagnetStack) = 5

\* create_magnets has returned or raised
TubeDecided == pc \notin {"circuits", "magnets", "tube"}

\* C20: create_magnets emits one tube if tube_od > od and none otherwise;
\* the tube spans the radius [od/2, tube_od/2] and the height
\* [-number*pitch/2, number*pitch/2], has tube_material, group 0 and no
\* circuit, and with pitch >= length it contains the height of every magnet
\* and magnet spacer.
C20_TubeRegion ==
    variant = "model_builders"
      => /\ \A k \in 1..Len(regions) :
              regions[k].kind = "tube"
                => LET g == regions[k]
                   IN /\ g.x0 = 2 * magnet.od
                      /\ g.x1 = 2 * Val(magnet.tube_od)
                      /\ g.y0 = -(2 * magnet.number * magnet.pitch)
                      /\ g.y1 = 2 * magnet.number * magnet.pitch
                      /\ g.material = magnet.tube_material
                      /\ g.group = 0
                      /\ g.circuit = ""
                      /\ magnet.pitch >= magnet.length
                           => \A j \in 1..Len(MagnetStack) :
                                /\ g.y0 <= MagnetStack[j].y0
                                /\ MagnetStack[j].y1 <= g.y1
         /\ Len(OfKind("tube")) <= 1
         /\ TubeDecided
              => (Len(OfKind("tube")) = 1
                    <=> (~IsNone(magnet.tube_od)
                           /\ Val(magnet.tube_od) > magnet.od))

C20_Witness ==
    /\ variant = "model_builders"
    /\ TubeDecided
    /\ Len(OfKind("tube")) = 1
    /\ Len(MagnetStack) = 5

(***************************************************************************)
(* model_builders.create_coils: spools and spacers.                        *)
(***************************************************************************)
\* no field that create_coils reads is None
CoilFieldsSet ==
    /\ ~IsNone(coil.vertical_offset)
    /\ ~IsNone(coil.spool_flange_width)
    /\ ~IsNone(coil.spool_id)
    /\ ~IsNone(coil.spool_od)

SpoolEncloses ==
    /\ Val(coil.spool_flange_width) > 0
    /\ Val(coil.spool_id) <= coil.id
    /\ Val(coil.spool_od) >= coil.od

\* C21: a spool is emitted for a coil if and only if spool_flange_width > 0,
\* spool_id <= id and spool_od >= od; the spool has group 4 on its label and
\* segments, no circuit, zero turns, and reaches spool_flange_width beyond
\* the coil at both axial ends.
C21_SpoolIffEnclosing ==
    (variant = "model_builders" /\ CoilFieldsSet)
      => /\ \A k \in 1..Len(regions) :
              regions[k].kind = "spool"
                => LET g == regions[k]
                       w == regions[k - 1]
                   IN /\ SpoolEncloses
                      /\ w.kind = "coil"
                      /\ w.idx = g.idx
                      /\ g.group = 4
                      /\ g.seggroup = 4
                      /\ g.circuit = ""
                      /\ g.turns = 0
                      /\ g.x0 = 2 * Val(coil.spool_id)
                      /\ g.x1 = 2 * Val(coil.spool_od)
                      /\ g.y0 = w.y0 - 4 * Val(coil.spool_flange_width)
                      /\ g.y1 = w.y1 + 4 * Val(coil.spool_flange_width)
         /\ \A k \in 1..Len(regions) :
              (regions[k].kind = "coil" /\ SpoolEncloses)
                => /\ k < Len(regions)
                   /\ regions[k + 1].kind = "spool"
                   /\ regions[k + 1].idx = regions[k].idx

C21_Witness ==
    /\ variant = "model_builders"
    /\ pc = "boundary"
    /\ coil.number = 3
    /\ Len(OfKind("spool")) = 3
    /\ coil.vertical_offset = Some(3)

SpacerNeeded(k) ==
    /\ coil.length + 2 * Val(coil.spool_flange_width) < coil.pitch
    /\ k < coil.number - 1

\* the winding of index k, when it has been emitted
WindingOf(k) == CHOOSE g \in { regions[j] : j \in 1..Len(regions) } :
                  g.kind = "coil" /\ g.idx = k

\* the spacer g lies in the gap above the winding of its index, flanges
\* excluded, has group 4 and no circuit, and starts at the radius x0
SpacerInGap(g, x0) ==
    /\ SpacerNeeded(g.idx)
    /\ g.group = 4
    /\ g.seggroup = 4
    /\ g.circuit = ""
    /\ g.x0 = x0
    /\ g.x1 = Max(2 * coil.od, 2 * Val(coil.spool_od))
    /\ g.y0 = WindingOf(g.idx).y1 + 4 * Val(coil.spool_flange_width)
    /\ g.y1 = WindingOf(g.idx).y0 + 4 * coil.pitch
                - 4 * Val(coil.spool_flange_width)
    /\ g.y0 < g.y1
    /\ \A j \in 1..Len(regions) :
         regions[j].kind \in {"coil", "spool"}
           => regions[j].y1 <= g.y0 \/ g.y1 <= regions[j].y0

\* every winding that needs a spacer has one, emitted in its iteration
SpacersEmitted ==
    \A k \in 1..Len(regions) :
      (regions[k].kind = "coil" /\ SpacerNeeded(regions[k].idx))
        => \E j \in (k + 1)..Min(k + 2, Len(regions)) :
             regions[j].kind = "coil_spacer" /\ regions[j].idx = regions[k].idx

\* C22: a spacer is emitted after coil i if and only if
\* length + 2*spool_flange_width < pitch and i < number - 1; it has group 4
\* and no circuit, spans the radius from min(id/2, spool_id/2) to
\* max(od/2, spool_od/2) and the height of the gap between the flange above
\* coil i and the flange below coil i+1, and overlaps no coil or spool.
C22_SpacerFillsCoilGap ==
    (variant = "model_builders" /\ CoilFieldsSet)
      => /\ \A k \in 1..Len(regions) :
              regions[k].kind = "coil_spacer"
                => SpacerInGap(regions[k],
                               Min(2 * coil.id, 2 * Val(coil.spool_id)))
         /\ SpacersEmitted

\* the same with a spool_id other than 0
C22_NonZeroSpoolId ==
    (variant = "model_builders" /\ CoilFieldsSet /\ Val(coil.spool_id) # 0)
      => /\ \A k \in 1..Len(regions) :
              regions[k].kind = "coil_spacer"
                => SpacerInGap(regions[k],
                               Min(2 * coil.id, 2 * Val(coil.spool_id)))
         /\ SpacersEmitted

\* the same with the radius the code starts from when spool_id is 0
C22_ZeroSpoolId ==
    (variant = "model_builders" /\ CoilFieldsSet /\ Val(coil.spool_id) = 0)
      => /\ \A k \in 1..Len(regions) :
              regions[k].kind = "coil_spacer"
                => SpacerInGap(regions[k], 2 * coil.id)
         /\ SpacersEmitted

(***************************************************************************)
(* __main__ of simulate.py after the build, and the range of the sweep.    *)
(***************************************************************************)
\* C23: in "generate" mode simulate.py goes on to the sweep after a
\* successful build, with the parameters of the configuration; it does not
\* exit with an error.
C23_GenerateReachesSweep ==
    (prog.module = "simulate" /\ prog.mode = "generate") => pc # "exit"

\* C24: for every start, end and step > 0 every sample of run_simulation is
\* taken at a position between start and end.
C24_SamplesWithinRange ==
    \A k \in 1..Len(results) :
      /\ sweep.start <= results[k].Position
      /\ results[k].Position <= sweep.end

\* the same for sweeps in which end - start is a non-negative multiple of step
C24_ExactSweeps ==
    ExactSweep
      => \A k \in 1..Len(results) :
           /\ sweep.start <= results[k].Position
           /\ results[k].Position <= sweep.end

(***************************************************************************)
(* model_builders with the optional fields at their defaults.              *)
(***************************************************************************)
DefaultOptionals ==
    /\ IsNone(magnet.tube_od)
    /\ IsNone(coil.vertical_offset)
    /\ IsNone(coil.spool_id)
    /\ IsNone(coil.spool_od)
    /\ IsNone(coil.spool_flange_width)

\* C25: with the required fields set and every optional field at its
\* default, create_magnets, create_coils and create_auto_boundary of
\* model_builders end without an error.
C25_DefaultsComplete ==
    (variant = "model_builders" /\ DefaultOptionals) => pc # "error"

(***************************************************************************)
(* The windings of create_coils in its variants.                           *)
(***************************************************************************)
\* the windings of CreateModel.create_coils for the coil c
CM_Windings(c) ==
    [k \in 1..c.number |->
       CoilRegion(c, -(2 * (c.number - 1) * c.pitch), k - 1)]

CoilsDecided == pc \in {"boundary", "error"}

\* C26: with vertical_offset = 0 the windings emitted by
\* model_builders.create_coils are, one by one, those emitted by
\* CreateModel.create_coils: rectangle, material, circuit, group of label
\* and segments, signed turns.
C26_WindingsEqual ==
    /\ (variant \in {"CreateModel", "sim_base"} /\ pc = "boundary")
         => CoilSeq = CM_Windings(coil)
    /\ (variant = "model_builders" /\ coil.vertical_offset = Some(0)
          /\ CoilsDecided)
         => CoilSeq = CM_Windings(coil)

\* the same for coils whose spool fields are numbers
C26_SpoolFieldsSet ==
    (variant = "model_builders" /\ coil.vertical_offset = Some(0)
       /\ CoilFieldsSet /\ CoilsDecided)
      => CoilSeq = CM_Windings(coil)

\* C27: the coils i and i+3 have the same circuit and group and opposite
\* turn counts of equal magnitude, adjacent coils have different circuits,
\* and the last coil is on CoilA, group 1.
C27_CoilPeriodicity ==
    \A a \in 1..Len(CoilSeq) :
      /\ \A b \in 1..Len(CoilSeq) :
           /\ CoilSeq[b].idx = CoilSeq[a].idx + 3
                => /\ CoilSeq[b].circuit = CoilSeq[a].circuit
                   /\ CoilSeq[b].group = CoilSeq[a].group
                   /\ CoilSeq[b].seggroup = CoilSeq[a].seggroup
                   /\ CoilSeq[b].turns = -CoilSeq[a].turns
                   /\ CoilSeq[a].turns # 0
           /\ CoilSeq[b].idx = CoilSeq[a].idx + 1
                => CoilSeq[b].circuit # CoilSeq[a].circuit
      /\ CoilSeq[a].idx = coil.number - 1
           => CoilSeq[a].circuit = "CoilA" /\ CoilSeq[a].group = 1

C27_Witness ==
    /\ variant = "model_builders"
    /\ pc = "boundary"
    /\ coil.number = 6
    /\ Len(CoilSeq) = 6
    /\ CoilSeq[6].circuit = "CoilA"
    /\ CoilSeq[1].turns = -CoilSeq[4].turns

====
